---- MODULE Spec2Model ----
(***************************************************************************)
(* lapin-futures-rustls: the connect helper of src/rustls/src/lib.rs.      *)
(*                                                                         *)
(* A connection attempt is one call of AMQPConnectionExt::connect on a str *)
(* or on a parsed AMQPUri, followed by the polls of the future it returns. *)
(* The socket, the TLS engine and the AMQP client are the environment:     *)
(* their outcomes are chosen nondeterministically.                         *)
(***************************************************************************)
EXTENDS Integers, Sequences, FiniteSets, TLC

VARIABLES
    input,          \* the receiver of connect: a str or an AMQPUri
    uri,            \* the AMQPUri connect runs on (self), once there is one
    pc,             \* where the connect call is
    closure,        \* the clones moved into the and_then closure
    fut,            \* the returned future
    sockRes,        \* what open_tcp_stream returned
    tlsRes,         \* how the handshake ended
    sockOpens,      \* calls of open_tcp_stream
    tlsAttempts,    \* calls of connect_async
    clientConnects, \* calls of lapin::client::Client::connect
    opts,           \* the ConnectionOptions given to Client::connect
    stream,         \* the AMQPStream handed to the client
    issued,         \* operations the caller issued on the stream
    obs,            \* what the caller observed of the last operation
    result          \* what the future resolved to

vars == <<input, uri, pc, closure, fut, sockRes, tlsRes, sockOpens,
          tlsAttempts, clientConnects, opts, stream, issued, obs, result>>

----------------------------------------------------------------------------
(* Bounds *)

MaxOps == 2
MaxBytes == 2

----------------------------------------------------------------------------
(* Values *)

None == [some |-> FALSE, v |-> 0]
Some(x) == [some |-> TRUE, v |-> x]

NoErr == [kind |-> "-", payload |-> "-"]
io_Error(kind, payload) == [kind |-> kind, payload |-> payload]

\* std::io::Result / futures results
Ok(x) == [ok |-> TRUE, v |-> x, err |-> NoErr]
Err(e) == [ok |-> FALSE, v |-> "-", err |-> e]

Hosts == {"h1", "h2"}
Ports == {5672}
Users == {"guest", "admin"}
Passwords == {"secret"}
VHosts == {"/", "prod"}
FrameMaxes == {None, Some(4096)}
Heartbeats == {None, Some(10)}

\* lapin::client::ConnectionOptions::default()
ConnectionOptions_default ==
    [username |-> "guest", password |-> "guest", vhost |-> "/",
     frame_max |-> 0, heartbeat |-> 0]

AMQPUserInfo == [username : Users, password : Passwords]
AMQPAuthority == [userinfo : AMQPUserInfo, host : Hosts, port : Ports]
AMQPQueryString == [frame_max : FrameMaxes, heartbeat : Heartbeats]
AMQPScheme == {"AMQP", "AMQPS"}
AMQPUri == [scheme : AMQPScheme, authority : AMQPAuthority,
            vhost : VHosts, query : AMQPQueryString]

NoUri == [scheme |-> "-",
          authority |-> [userinfo |-> [username |-> "-", password |-> "-"],
                         host |-> "-", port |-> 0],
          vhost |-> "-",
          query |-> [frame_max |-> None, heartbeat |-> None]]

\* A str is its scheme text and the rest of the text, which is kept here as
\* the fields it spells.
SchemeTexts == {"amqp", "amqps", "http"}
Strs == [scheme : SchemeTexts, authority : AMQPAuthority,
         vhost : VHosts, query : AMQPQueryString]

\* self.parse::<AMQPUri>()
str_parse(s) ==
    IF s.scheme = "amqp"
    THEN [ok |-> TRUE, uri |-> [s EXCEPT !.scheme = "AMQP"], err |-> "-"]
    ELSE IF s.scheme = "amqps"
    THEN [ok |-> TRUE, uri |-> [s EXCEPT !.scheme = "AMQPS"], err |-> "-"]
    ELSE [ok |-> FALSE, uri |-> NoUri, err |-> "Invalid scheme"]

\* the receivers of connect
Inputs ==
    {[form |-> "uri", val |-> u] : u \in AMQPUri}
    \cup {[form |-> "str", val |-> s] : s \in Strs}

----------------------------------------------------------------------------
(* The environment: socket, TLS engine, AMQP client *)

\* std::net::TcpStream::connect((host, port))
StdConnectOutcomes ==
    {Ok("TcpStream"),
     Err(io_Error("ConnectionRefused", "os error")),
     Err(io_Error("TimedOut", "os error"))}

\* TcpStream::from_stream(stream, handle)
FromStreamOutcomes ==
    {Ok("TcpStream"), Err(io_Error("Other", "reactor gone"))}

\* the ConnectAsync future of tokio_rustls
HandshakeOutcomes ==
    {Ok("TlsStream"),
     Err(io_Error("InvalidData", "TLSError")),
     Err(io_Error("ConnectionReset", "os error"))}

\* the future of lapin::client::Client::connect
ClientOutcomes ==
    {Ok("Client"), Err(io_Error("InvalidData", "amqp"))}

----------------------------------------------------------------------------
(* The functions of the crate *)

\* Result::and_then
and_then(r, next) == IF r.ok THEN next ELSE r

open_tcp_stream(connected, registered) == and_then(connected, registered)

\* a variant that collapses every error to the generic kind
future_err_generic(e) ==
    [state |-> "err", variant |-> "-", err |-> io_Error("Other", e.payload)]

NoFuture == [state |-> "none", variant |-> "-", err |-> NoErr]
future_err(e) == [state |-> "err", variant |-> "-", err |-> e]
future_ok(variant) == [state |-> "ok", variant |-> variant, err |-> NoErr]
connect_async == [state |-> "handshake", variant |-> "Tls", err |-> NoErr]

\* a variant that starts a handshake on the plain path too
AMQPStream_raw_handshaking(opened) ==
    IF opened.ok
    THEN [fut |-> connect_async, handshakes |-> 1]
    ELSE [fut |-> future_err(opened.err), handshakes |-> 0]

\* AMQPStream::raw: the future and the number of handshakes it started
AMQPStream_raw(opened) ==
    IF opened.ok
    THEN [fut |-> future_ok("Raw"), handshakes |-> 0]
    ELSE [fut |-> future_err(opened.err), handshakes |-> 0]

\* a variant that wraps the error of the socket open in a new error
AMQPStream_tls_wrapping(opened) ==
    IF opened.ok
    THEN [fut |-> connect_async, handshakes |-> 1]
    ELSE [fut |-> future_err(io_Error("Other", opened.err.kind)),
          handshakes |-> 0]

\* a variant that starts the handshake whatever the socket open gave
AMQPStream_tls_eager(opened) == [fut |-> connect_async, handshakes |-> 1]

\* AMQPStream::tls
AMQPStream_tls(opened) ==
    IF opened.ok
    THEN [fut |-> connect_async, handshakes |-> 1]
    ELSE [fut |-> future_err(opened.err), handshakes |-> 0]

\* match self.scheme
stream_for(scheme, opened) ==
    IF scheme = "AMQP" THEN AMQPStream_raw(opened) ELSE AMQPStream_tls(opened)

\* the clones connect takes of self
NoClosure == [userinfo |-> [username |-> "-", password |-> "-"],
              vhost |-> "-", query |-> [frame_max |-> None, heartbeat |-> None]]
clones(self) == [userinfo |-> self.authority.userinfo,
                 vhost |-> self.vhost, query |-> self.query]

unwrap_or_else(o, d) == IF o.some THEN o.v ELSE d

\* a variant in which heartbeat falls back whenever frame_max does
connect_stream_coupled(credentials, vhost, query) ==
    LET defaults == ConnectionOptions_default IN
    [username |-> credentials.username,
     password |-> credentials.password,
     vhost |-> vhost,
     frame_max |-> unwrap_or_else(query.frame_max, defaults.frame_max),
     heartbeat |-> IF query.frame_max.some
                   THEN unwrap_or_else(query.heartbeat, defaults.heartbeat)
                   ELSE defaults.heartbeat]

\* the ConnectionOptions connect_stream builds
connect_stream(credentials, vhost, query) ==
    LET defaults == ConnectionOptions_default IN
    [username |-> credentials.username,
     password |-> credentials.password,
     vhost |-> vhost,
     frame_max |-> unwrap_or_else(query.frame_max, defaults.frame_max),
     heartbeat |-> unwrap_or_else(query.heartbeat, defaults.heartbeat)]

NoOptions == [username |-> "-", password |-> "-", vhost |-> "-",
              frame_max |-> -1, heartbeat |-> -1]

\* a variant that connects to the default broker when the parse fails
str_connect_default(s) ==
    LET parsed == str_parse(s) IN
    IF parsed.ok
    THEN [parsed |-> TRUE, uri |-> parsed.uri, fut |-> NoFuture]
    ELSE [parsed |-> TRUE, uri |-> [s EXCEPT !.scheme = "AMQP"],
          fut |-> NoFuture]

\* impl AMQPConnectionExt for str: the parse, and the future of a failed one
str_connect(s) ==
    LET parsed == str_parse(s) IN
    IF parsed.ok
    THEN [parsed |-> TRUE, uri |-> parsed.uri, fut |-> NoFuture]
    ELSE [parsed |-> FALSE, uri |-> NoUri,
          fut |-> future_err(io_Error("Other", parsed.err))]

----------------------------------------------------------------------------
(* The two backends, as the caller of their Read/Write impls sees them *)

Min(a, b) == IF a < b THEN a ELSE b

R(tag, n, kind) == [tag |-> tag, n |-> n, kind |-> kind]
NoResult == R("-", 0, "-")

\* rx: bytes the peer sent and the caller has not read; tx: bytes accepted
\* from the caller; calls: operations received; ret: what the last returned
NewBackend == [rx |-> MaxBytes, tx |-> 0, shut |-> FALSE, calls |-> 0,
               ret |-> NoResult]

Conds == {"ready", "wouldblock", "error"}
Ops == {"read", "prepare_uninitialized_buffer", "read_buf", "write", "flush",
        "shutdown", "write_buf"}
Lens == 1..MaxBytes

\* kind is TcpStream or TlsStream<TcpStream, ClientSession>
Backend(kind, b, op, n, cond) ==
    LET got  == Min(n, b.rx)
        put  == IF b.shut THEN 0 ELSE Min(n, MaxBytes - b.tx)
        fail == R("Err", 0, "ConnectionReset")
        ret  ==
            CASE op = "prepare_uninitialized_buffer" ->
                    R(IF kind = "TcpStream" THEN "false" ELSE "true", 0, "-")
              [] op # "prepare_uninitialized_buffer" /\ cond = "error" -> fail
              [] op \in {"read", "write", "flush"} /\ cond = "wouldblock" ->
                    R("Err", 0, "WouldBlock")
              [] op \in {"read_buf", "write_buf", "shutdown"}
                    /\ cond = "wouldblock" -> R("NotReady", 0, "-")
              [] op = "read" /\ cond = "ready" -> R("Ok", got, "-")
              [] op = "read_buf" /\ cond = "ready" -> R("Ready", got, "-")
              [] op = "write" /\ cond = "ready" -> R("Ok", put, "-")
              [] op = "write_buf" /\ cond = "ready" -> R("Ready", put, "-")
              [] op = "flush" /\ cond = "ready" -> R("Ok", 0, "-")
              [] op = "shutdown" /\ cond = "ready" -> R("Ready", 0, "-")
        done == ret.tag \in {"Ok", "Ready"}
    IN  [rx    |-> IF done /\ op \in {"read", "read_buf"}
                   THEN b.rx - got ELSE b.rx,
         tx    |-> IF done /\ op \in {"write", "write_buf"}
                   THEN b.tx + put ELSE b.tx,
         shut  |-> b.shut \/ (done /\ op = "shutdown"),
         calls |-> b.calls + 1,
         ret   |-> ret]

----------------------------------------------------------------------------
(* AMQPStream *)

NoStream == [open |-> FALSE, variant |-> "-", io |-> NewBackend]
Raw(tcp) == [open |-> TRUE, variant |-> "Raw", io |-> tcp]
Tls(tls) == [open |-> TRUE, variant |-> "Tls", io |-> tls]

\* a variant that forwards every operation twice
Forward_twice(self, op, n, cond) ==
    LET kind == IF self.variant = "Raw" THEN "TcpStream" ELSE "TlsStream"
        b == Backend(kind, Backend(kind, self.io, op, n, cond), op, n, cond)
    IN  [self |-> [self EXCEPT !.io = b], ret |-> b.ret]

\* match *self { Raw(ref mut raw) => raw.op(..), Tls(ref mut tls) => tls.op(..) }
Forward(self, op, n, cond) ==
    LET b == IF self.variant = "Raw"
             THEN Backend("TcpStream", self.io, op, n, cond)
             ELSE Backend("TlsStream", self.io, op, n, cond)
    IN  [self |-> [self EXCEPT !.io = b], ret |-> b.ret]

AMQPStream_read(self, n, cond) == Forward(self, "read", n, cond)
AMQPStream_prepare_uninitialized_buffer(self, n, cond) ==
    Forward(self, "prepare_uninitialized_buffer", n, cond)
AMQPStream_read_buf(self, n, cond) == Forward(self, "read_buf", n, cond)
AMQPStream_write(self, n, cond) == Forward(self, "write", n, cond)
\* a variant whose Raw arm answers Ok(()) without asking the socket
AMQPStream_flush_raw_noop(self, n, cond) ==
    IF self.variant = "Raw"
    THEN [self |-> self, ret |-> R("Ok", 0, "-")]
    ELSE [self |-> [self EXCEPT !.io = Backend("TlsStream", @, "flush", n, cond)],
          ret |-> Backend("TlsStream", self.io, "flush", n, cond).ret]

AMQPStream_flush(self, n, cond) == Forward(self, "flush", n, cond)
AMQPStream_shutdown(self, n, cond) == Forward(self, "shutdown", n, cond)
AMQPStream_write_buf(self, n, cond) == Forward(self, "write_buf", n, cond)

\* the caller's choice of an operation
Call(self, op, n, cond) ==
    CASE op = "read" -> AMQPStream_read(self, n, cond)
      [] op = "prepare_uninitialized_buffer" ->
            AMQPStream_prepare_uninitialized_buffer(self, n, cond)
      [] op = "read_buf" -> AMQPStream_read_buf(self, n, cond)
      [] op = "write" -> AMQPStream_write(self, n, cond)
      [] op = "flush" -> AMQPStream_flush(self, n, cond)
      [] op = "shutdown" -> AMQPStream_shutdown(self, n, cond)
      [] op = "write_buf" -> AMQPStream_write_buf(self, n, cond)

----------------------------------------------------------------------------
(* State *)

Calls == DOMAIN pc

Pending == [state |-> "pending", err |-> NoErr]
Resolved == [state |-> "ok", err |-> NoErr]
Failed(e) == [state |-> "err", err |-> e]

NoOutcome == [ok |-> FALSE, v |-> "-", err |-> NoErr]

\* the state before connect is called on each of the receivers
Start(receivers) ==
    /\ input = receivers
    /\ uri = [c \in DOMAIN receivers |->
                IF receivers[c].form = "uri" THEN receivers[c].val
                                             ELSE NoUri]
    /\ pc = [c \in DOMAIN receivers |-> "idle"]
    /\ closure = [c \in DOMAIN receivers |-> NoClosure]
    /\ fut = [c \in DOMAIN receivers |-> NoFuture]
    /\ sockRes = [c \in DOMAIN receivers |-> NoOutcome]
    /\ tlsRes = [c \in DOMAIN receivers |-> NoOutcome]
    /\ sockOpens = [c \in DOMAIN receivers |-> 0]
    /\ tlsAttempts = [c \in DOMAIN receivers |-> 0]
    /\ clientConnects = [c \in DOMAIN receivers |-> 0]
    /\ opts = [c \in DOMAIN receivers |-> NoOptions]
    /\ stream = [c \in DOMAIN receivers |-> NoStream]
    /\ issued = [c \in DOMAIN receivers |-> 0]
    /\ obs = [c \in DOMAIN receivers |-> [op |-> "-", ret |-> NoResult]]
    /\ result = [c \in DOMAIN receivers |-> Pending]

Init == \E i \in Inputs : Start(1 :> i)

----------------------------------------------------------------------------
(* The connect call *)

\* AMQPUri::connect up to the blocking std::net::TcpStream::connect inside
\* open_tcp_stream: the clones are taken, the scheme is matched and raw or
\* tls calls open_tcp_stream
EnterUri(c, self) ==
    /\ closure' = [closure EXCEPT ![c] = clones(self)]
    /\ sockOpens' = [sockOpens EXCEPT ![c] = @ + 1]
    /\ pc' = [pc EXCEPT ![c] = "open_tcp_stream"]

\* <AMQPUri as AMQPConnectionExt>::connect
ConnectUri(c) ==
    /\ pc[c] = "idle"
    /\ input[c].form = "uri"
    /\ EnterUri(c, uri[c])
    /\ UNCHANGED <<input, uri, fut, sockRes, tlsRes, tlsAttempts,
                   clientConnects, opts, stream, issued, obs, result>>

\* <str as AMQPConnectionExt>::connect
ConnectStr(c) ==
    /\ pc[c] = "idle"
    /\ input[c].form = "str"
    /\ LET r == str_connect(input[c].val) IN
       /\ uri' = [uri EXCEPT ![c] = r.uri]
       /\ IF r.parsed
          THEN /\ EnterUri(c, r.uri)
               /\ UNCHANGED fut
          ELSE /\ fut' = [fut EXCEPT ![c] = r.fut]
               /\ pc' = [pc EXCEPT ![c] = "returned"]
               /\ UNCHANGED <<closure, sockOpens>>
    /\ UNCHANGED <<input, sockRes, tlsRes, tlsAttempts, clientConnects,
                   opts, stream, issued, obs, result>>

\* a variant that opens the socket again when the open failed
OpenReturns_retrying(c) ==
    /\ pc[c] = "open_tcp_stream"
    /\ \E connected \in StdConnectOutcomes, registered \in FromStreamOutcomes :
        LET opened == open_tcp_stream(connected, registered)
            made   == stream_for(uri[c].scheme, opened)
        IN  /\ sockRes' = [sockRes EXCEPT ![c] = opened]
            /\ IF opened.ok \/ sockOpens[c] > 1
               THEN /\ fut' = [fut EXCEPT ![c] = made.fut]
                    /\ tlsAttempts' =
                          [tlsAttempts EXCEPT ![c] = @ + made.handshakes]
                    /\ pc' = [pc EXCEPT ![c] = "returned"]
                    /\ UNCHANGED sockOpens
               ELSE /\ sockOpens' = [sockOpens EXCEPT ![c] = @ + 1]
                    /\ UNCHANGED <<fut, tlsAttempts, pc>>
    /\ UNCHANGED <<input, uri, closure, tlsRes, clientConnects,
                   opts, stream, issued, obs, result>>

\* open_tcp_stream returns into raw or tls, which builds the stream future;
\* connect chains connect_stream onto it and returns
OpenReturns(c) ==
    /\ pc[c] = "open_tcp_stream"
    /\ \E connected \in StdConnectOutcomes, registered \in FromStreamOutcomes :
        LET opened == open_tcp_stream(connected, registered)
            made   == stream_for(uri[c].scheme, opened)
        IN  /\ sockRes' = [sockRes EXCEPT ![c] = opened]
            /\ fut' = [fut EXCEPT ![c] = made.fut]
            /\ tlsAttempts' = [tlsAttempts EXCEPT ![c] = @ + made.handshakes]
    /\ pc' = [pc EXCEPT ![c] = "returned"]
    /\ UNCHANGED <<input, uri, closure, tlsRes, sockOpens, clientConnects,
                   opts, stream, issued, obs, result>>

----------------------------------------------------------------------------
(* The returned future *)

\* the and_then closure: connect_stream(stream, userinfo, vhost, &query)
Chain(c, s) ==
    /\ opts' = [opts EXCEPT ![c] =
                  connect_stream(closure[c].userinfo, closure[c].vhost,
                                 closure[c].query)]
    /\ clientConnects' = [clientConnects EXCEPT ![c] = @ + 1]
    /\ stream' = [stream EXCEPT ![c] = s]
    /\ fut' = [fut EXCEPT ![c] = [state |-> "client_connect",
                                  variant |-> s.variant, err |-> NoErr]]

Settle(c, r) ==
    /\ fut' = [fut EXCEPT ![c] = [@ EXCEPT !.state = "done"]]
    /\ result' = [result EXCEPT ![c] = r]

\* a poll of futures::future::err(e)
PollErr(c) ==
    /\ pc[c] = "returned"
    /\ fut[c].state = "err"
    /\ Settle(c, Failed(fut[c].err))
    /\ UNCHANGED <<input, uri, pc, closure, sockRes, tlsRes, sockOpens,
                   tlsAttempts, clientConnects, opts, stream, issued, obs>>

\* a poll of futures::future::ok(AMQPStream::Raw(stream))
PollOk(c) ==
    /\ pc[c] = "returned"
    /\ fut[c].state = "ok"
    /\ Chain(c, Raw(NewBackend))
    /\ UNCHANGED <<input, uri, pc, closure, sockRes, tlsRes, sockOpens,
                   tlsAttempts, issued, obs, result>>

\* the poll in which the handshake ends
PollHandshake(c) ==
    /\ pc[c] = "returned"
    /\ fut[c].state = "handshake"
    /\ \E shaken \in HandshakeOutcomes :
        /\ tlsRes' = [tlsRes EXCEPT ![c] = shaken]
        /\ IF shaken.ok
           THEN /\ Chain(c, Tls(NewBackend))
                /\ UNCHANGED result
           ELSE /\ Settle(c, Failed(shaken.err))
                /\ UNCHANGED <<opts, clientConnects, stream>>
    /\ UNCHANGED <<input, uri, pc, closure, sockRes, sockOpens, tlsAttempts,
                   issued, obs>>

\* the poll in which Client::connect ends
PollClient(c) ==
    /\ pc[c] = "returned"
    /\ fut[c].state = "client_connect"
    /\ \E connected \in ClientOutcomes :
        IF connected.ok
        THEN /\ Settle(c, Resolved)
             /\ UNCHANGED stream
        ELSE /\ Settle(c, Failed(connected.err))
             /\ stream' = [stream EXCEPT ![c] = NoStream]
    /\ UNCHANGED <<input, uri, pc, closure, sockRes, tlsRes, sockOpens,
                   tlsAttempts, clientConnects, opts, issued, obs>>

\* the caller drops the future before it resolves
Drop(c) ==
    /\ pc[c] = "returned"
    /\ fut[c].state \in {"err", "ok", "handshake", "client_connect"}
    /\ fut' = [fut EXCEPT ![c] = [@ EXCEPT !.state = "dropped"]]
    /\ stream' = [stream EXCEPT ![c] = NoStream]
    /\ UNCHANGED <<input, uri, pc, closure, sockRes, tlsRes, sockOpens,
                   tlsAttempts, clientConnects, opts, issued, obs, result>>

----------------------------------------------------------------------------
(* Operations on the stream *)

Apply(c, op, out) ==
    /\ stream' = [stream EXCEPT ![c] = out.self]
    /\ obs' = [obs EXCEPT ![c] = [op |-> op, ret |-> out.ret]]
    /\ issued' = [issued EXCEPT ![c] = @ + 1]

CanUse(c) == stream[c].open /\ issued[c] < MaxOps

Read(c) ==
    /\ CanUse(c)
    /\ \E n \in Lens, cond \in Conds :
        Apply(c, "read", AMQPStream_read(stream[c], n, cond))
    /\ UNCHANGED <<input, uri, pc, closure, fut, sockRes, tlsRes, sockOpens,
                   tlsAttempts, clientConnects, opts, result>>

PrepareUninitializedBuffer(c) ==
    /\ CanUse(c)
    /\ \E n \in Lens, cond \in Conds :
        Apply(c, "prepare_uninitialized_buffer", AMQPStream_prepare_uninitialized_buffer(stream[c], n, cond))
    /\ UNCHANGED <<input, uri, pc, closure, fut, sockRes, tlsRes, sockOpens,
                   tlsAttempts, clientConnects, opts, result>>

ReadBuf(c) ==
    /\ CanUse(c)
    /\ \E n \in Lens, cond \in Conds :
        Apply(c, "read_buf", AMQPStream_read_buf(stream[c], n, cond))
    /\ UNCHANGED <<input, uri, pc, closure, fut, sockRes, tlsRes, sockOpens,
                   tlsAttempts, clientConnects, opts, result>>

Write(c) ==
    /\ CanUse(c)
    /\ \E n \in Lens, cond \in Conds :
        Apply(c, "write", AMQPStream_write(stream[c], n, cond))
    /\ UNCHANGED <<input, uri, pc, closure, fut, sockRes, tlsRes, sockOpens,
                   tlsAttempts, clientConnects, opts, result>>

Flush(c) ==
    /\ CanUse(c)
    /\ \E n \in Lens, cond \in Conds :
        Apply(c, "flush", AMQPStream_flush(stream[c], n, cond))
    /\ UNCHANGED <<input, uri, pc, closure, fut, sockRes, tlsRes, sockOpens,
                   tlsAttempts, clientConnects, opts, result>>

Shutdown(c) ==
    /\ CanUse(c)
    /\ \E n \in Lens, cond \in Conds :
        Apply(c, "shutdown", AMQPStream_shutdown(stream[c], n, cond))
    /\ UNCHANGED <<input, uri, pc, closure, fut, sockRes, tlsRes, sockOpens,
                   tlsAttempts, clientConnects, opts, result>>

WriteBuf(c) ==
    /\ CanUse(c)
    /\ \E n \in Lens, cond \in Conds :
        Apply(c, "write_buf", AMQPStream_write_buf(stream[c], n, cond))
    /\ UNCHANGED <<input, uri, pc, closure, fut, sockRes, tlsRes, sockOpens,
                   tlsAttempts, clientConnects, opts, result>>

----------------------------------------------------------------------------

Next ==
    \/ \E c \in Calls : ConnectUri(c)
    \/ \E c \in Calls : ConnectStr(c)
    \/ \E c \in Calls : OpenReturns(c)
    \/ \E c \in Calls : PollErr(c)
    \/ \E c \in Calls : PollOk(c)
    \/ \E c \in Calls : PollHandshake(c)
    \/ \E c \in Calls : PollClient(c)
    \/ \E c \in Calls : Drop(c)
    \/ \E c \in Calls : Read(c)
    \/ \E c \in Calls : PrepareUninitializedBuffer(c)
    \/ \E c \in Calls : ReadBuf(c)
    \/ \E c \in Calls : Write(c)
    \/ \E c \in Calls : Flush(c)
    \/ \E c \in Calls : Shutdown(c)
    \/ \E c \in Calls : WriteBuf(c)

Spec == Init /\ [][Next]_vars

----------------------------------------------------------------------------
(* Two connection attempts side by side, one per scheme, whose streams are *)
(* then driven with the same operations under the same conditions          *)

PairInputs ==
    {i \in Inputs :
        /\ i.val.scheme \in {"amqp", "amqps", "AMQP", "AMQPS"}
        /\ i.val.authority.userinfo.username = "guest"
        /\ i.val.vhost = "/"
        /\ i.val.query = [frame_max |-> None, heartbeat |-> None]}

InitPair ==
    \E a, b \in PairInputs :
        /\ a.val.scheme \in {"amqp", "AMQP"}
        /\ b.val.scheme \in {"amqps", "AMQPS"}
        /\ Start(1 :> a @@ 2 :> b)

\* the caller issues one operation on both streams
OnBoth ==
    /\ \A c \in Calls : CanUse(c)
    /\ \E op \in Ops, n \in Lens, cond \in Conds :
        /\ stream' = [c \in Calls |-> Call(stream[c], op, n, cond).self]
        /\ obs' = [c \in Calls |->
                     [op |-> op, ret |-> Call(stream[c], op, n, cond).ret]]
        /\ issued' = [c \in Calls |-> issued[c] + 1]
    /\ UNCHANGED <<input, uri, pc, closure, fut, sockRes, tlsRes, sockOpens,
                   tlsAttempts, clientConnects, opts, result>>

NextPair ==
    \/ \E c \in Calls : ConnectUri(c)
    \/ \E c \in Calls : ConnectStr(c)
    \/ \E c \in Calls : OpenReturns(c)
    \/ \E c \in Calls : PollErr(c)
    \/ \E c \in Calls : PollOk(c)
    \/ \E c \in Calls : PollHandshake(c)
    \/ \E c \in Calls : PollClient(c)
    \/ \E c \in Calls : Drop(c)
    \/ OnBoth

SpecPair == InitPair /\ [][NextPair]_vars

----------------------------------------------------------------------------
(* Properties *)

Parsed(c) == uri[c].scheme \in AMQPScheme
Unparsable(c) == input[c].form = "str" /\ ~str_parse(input[c].val).ok
Returned(c) == pc[c] = "returned"
SockFailed(c) == sockRes[c].err # NoErr
HandshakeFailed(c) == tlsRes[c].err # NoErr
Refused == io_Error("ConnectionRefused", "os error")

\* C1 as stated: with scheme amqp no TLS handshake is ever attempted, and
\* with scheme amqps one is always attempted, whatever the socket open gave
C1_AsStated ==
    \A c \in Calls :
        /\ uri[c].scheme = "AMQP" => tlsAttempts[c] = 0
        /\ uri[c].scheme = "AMQPS" /\ Returned(c) => tlsAttempts[c] >= 1

\* C1: with scheme amqp no TLS handshake is ever attempted; with scheme
\* amqps a handshake is attempted exactly when the socket open succeeded,
\* and none when it failed
C1_HandshakeByScheme ==
    \A c \in Calls :
        /\ uri[c].scheme = "AMQP" => tlsAttempts[c] = 0
        /\ uri[c].scheme = "AMQPS" /\ Returned(c) =>
              /\ sockRes[c].ok => tlsAttempts[c] = 1
              /\ ~sockRes[c].ok => tlsAttempts[c] = 0
        /\ ~Returned(c) => tlsAttempts[c] = 0

C1_Witness ==
    \E c \in Calls :
        /\ uri[c].scheme = "AMQPS"
        /\ tlsAttempts[c] = 1
        /\ result[c].state = "ok"

\* C2: connect on a string that does not parse returns a future failing with
\* an I/O error of kind Other wrapping the parse error, and no socket open,
\* handshake or client connect is ever attempted
C2_UnparsableNoNetwork ==
    \A c \in Calls :
        Unparsable(c) =>
            /\ pc[c] \in {"idle", "returned"}
            /\ sockOpens[c] = 0 /\ tlsAttempts[c] = 0 /\ clientConnects[c] = 0
            /\ ~stream[c].open
            /\ Returned(c) =>
                  /\ fut[c].state \in {"err", "done", "dropped"}
                  /\ fut[c].err = io_Error("Other", str_parse(input[c].val).err)
                  /\ result[c].state # "ok"
                  /\ fut[c].state = "done" => result[c] = Failed(fut[c].err)

C2_Witness ==
    \E c \in Calls :
        /\ Unparsable(c)
        /\ result[c].state = "err"
        /\ result[c].err.kind = "Other"

\* C3: for the same host and port, when the socket connection is refused, a
\* connect with scheme amqp and one with scheme amqps fail with the same
\* error, the one of the socket open
C3_SameErrorOnRefusal ==
    \A c, d \in Calls :
        (/\ uri[c].scheme = "AMQP" /\ uri[d].scheme = "AMQPS"
         /\ uri[c].authority.host = uri[d].authority.host
         /\ uri[c].authority.port = uri[d].authority.port
         /\ sockRes[c].err = Refused /\ sockRes[d].err = Refused
         /\ fut[c].state = "done" /\ fut[d].state = "done")
        => /\ result[c].state = "err" /\ result[d].state = "err"
           /\ result[c].err.kind = result[d].err.kind
           /\ result[c].err = Refused /\ result[d].err = Refused

C3_Witness ==
    \E c, d \in Calls :
        /\ uri[c].scheme = "AMQP" /\ uri[d].scheme = "AMQPS"
        /\ uri[c].authority.host = uri[d].authority.host
        /\ sockRes[c].err = Refused /\ sockRes[d].err = Refused
        /\ result[c].state = "err" /\ result[d].state = "err"

ClaimedOps == {"read", "write", "flush", "shutdown"}

C5_WaitsOnlyInFuture ==
    \A c \in Calls :
        (pc[c] = "open_tcp_stream" \/ fut[c].state = "handshake")
            => Returned(c)

\* C6 as stated: every failure reaches the caller with the one generic
\* error kind
C6_AsStated ==
    \A c \in Calls : result[c].state = "err" => result[c].err.kind = "Other"

\* C6: every failure reaches the caller as an I/O error that is the wrapped
\* parse error with kind Other, or else the error of the socket open, of the
\* handshake or of the client connect passed through with its own kind
C6_ErrorsPassedThrough ==
    \A c \in Calls :
        result[c].state = "err" =>
            IF Unparsable(c)
            THEN result[c].err = io_Error("Other", "Invalid scheme")
            ELSE IF SockFailed(c) THEN result[c].err = sockRes[c].err
            ELSE IF HandshakeFailed(c) THEN result[c].err = tlsRes[c].err
            ELSE Err(result[c].err) \in ClientOutcomes

C6_Witness ==
    \E c \in Calls :
        /\ result[c].state = "err"
        /\ HandshakeFailed(c)
        /\ result[c].err.kind = "InvalidData"

\* C7: within one connect the socket open and the handshake are each
\* attempted at most once; when either fails the future fails with that
\* error and nothing further is attempted
C7_NoRetry ==
    \A c \in Calls :
        /\ sockOpens[c] <= 1 /\ tlsAttempts[c] <= 1
        /\ SockFailed(c) =>
              /\ sockOpens[c] = 1 /\ tlsAttempts[c] = 0
              /\ pc[c] = "returned"
              /\ fut[c].state \in {"err", "done", "dropped"}
              /\ fut[c].err = sockRes[c].err
              /\ fut[c].state = "done" => result[c] = Failed(sockRes[c].err)
        /\ HandshakeFailed(c) =>
              /\ sockOpens[c] = 1 /\ tlsAttempts[c] = 1
              /\ fut[c].state = "done"
              /\ result[c] = Failed(tlsRes[c].err)

C7_Witness ==
    \E c \in Calls :
        /\ HandshakeFailed(c)
        /\ result[c].state = "err"
        /\ sockOpens[c] = 1 /\ tlsAttempts[c] = 1

\* C8: the handshake starts only after the socket open succeeded; the client
\* connect is invoked at most once and only once a stream was obtained, and
\* never when the socket open or the handshake failed
C8_Ordering ==
    \A c \in Calls :
        /\ tlsAttempts[c] > 0 => sockRes[c].ok
        /\ clientConnects[c] <= 1
        /\ clientConnects[c] = 1 =>
              /\ sockRes[c].ok
              /\ uri[c].scheme = "AMQPS" => tlsRes[c].ok
        /\ SockFailed(c) \/ HandshakeFailed(c) => clientConnects[c] = 0
        /\ stream[c].open => clientConnects[c] = 1

C8_Witness ==
    \E c \in Calls :
        /\ uri[c].scheme = "AMQPS"
        /\ tlsRes[c].ok
        /\ clientConnects[c] = 1

\* C9: the stream is Raw for amqp and Tls for amqps and stays so under every
\* operation; each operation reaches the backend exactly once and the caller
\* gets what the backend returned, errors included
C9_VariantAndForwarding ==
    \A c \in Calls :
        /\ fut[c].state = "ok" => uri[c].scheme = "AMQP"
        /\ stream[c].open =>
              /\ stream[c].variant =
                    (IF uri[c].scheme = "AMQP" THEN "Raw" ELSE "Tls")
              /\ stream[c].io.calls = issued[c]
              /\ obs[c].ret = stream[c].io.ret

C9_Witness ==
    \E c \in Calls :
        /\ stream[c].open /\ stream[c].variant = "Tls"
        /\ issued[c] = 2
        /\ obs[c].op = "shutdown" /\ obs[c].ret.tag = "Err"

\* the URI connect was called with
Given(c) ==
    IF input[c].form = "uri" THEN input[c].val ELSE str_parse(input[c].val).uri

\* C10: the options given to the client connect are the URI's username,
\* password and virtual host, and frame_max and heartbeat from the query
\* when present, each otherwise the default on its own; the URI is unchanged
C10_Options ==
    \A c \in Calls :
        /\ Parsed(c) => uri[c] = Given(c)
        /\ clientConnects[c] >= 1 =>
              /\ opts[c].username = Given(c).authority.userinfo.username
              /\ opts[c].password = Given(c).authority.userinfo.password
              /\ opts[c].vhost = Given(c).vhost
              /\ Given(c).query.frame_max.some =>
                    opts[c].frame_max = Given(c).query.frame_max.v
              /\ ~Given(c).query.frame_max.some =>
                    opts[c].frame_max = ConnectionOptions_default.frame_max
              /\ Given(c).query.heartbeat.some =>
                    opts[c].heartbeat = Given(c).query.heartbeat.v
              /\ ~Given(c).query.heartbeat.some =>
                    opts[c].heartbeat = ConnectionOptions_default.heartbeat

C10_Witness ==
    \E c \in Calls :
        /\ clientConnects[c] = 1
        /\ ~uri[c].query.frame_max.some
        /\ uri[c].query.heartbeat.some
        /\ opts[c].frame_max = 0 /\ opts[c].heartbeat = 10
        /\ opts[c].username = "admin"

====
